---- MODULE Spec2Model ----
(***************************************************************************)
(* Deebot sensor platform (custom_components/deebot/sensor.py).            *)
(*                                                                         *)
(* Every sensor entity holds one value cell (_attr_native_value) and, for  *)
(* the last-error sensor, one auxiliary attribute mapping                  *)
(* (_attr_extra_state_attributes).  async_added_to_hass subscribes an      *)
(* `async def on_event` coroutine to the status stream of the vacuum bot   *)
(* and a second one to the sensor's own metric stream; the unsubscribe of  *)
(* each listener is registered with async_on_remove.                       *)
(*                                                                         *)
(* The callbacks are coroutine functions: an emission on a stream creates  *)
(* one scheduled callback per current subscriber (a task on the event      *)
(* loop, first in first out); the body of a callback has no await, so it   *)
(* runs as a single step when the loop reaches it.                         *)
(***************************************************************************)
EXTENDS Integers, Sequences, FiniteSets, TLC

(***************************************************************************)
(* Python values.  Values of different Python types are kept apart by the  *)
(* name of their only field, so that 0, "" and None are three values.      *)
(***************************************************************************)
None == [none |-> TRUE]

PyInt(n) == [int |-> n]

PyStr(s) == [str |-> s]

\* homeassistant.const.STATE_UNKNOWN
STATE_UNKNOWN == PyStr("unknown")

\* homeassistant.const.CONF_DESCRIPTION, the key of the auxiliary attribute
CONF_DESCRIPTION == "description"

\* .const.LAST_ERROR, the metric key of the last-error sensor
LAST_ERROR == "last_error"

\* Python truth value of a scalar: None, 0 and "" are false
Truthy(v) == v # None /\ v # PyInt(0) /\ v # PyStr("")

\* variant: floor division, n // d
PyRound_floor(n, d) == n \div d

\* Python 3 round(n / d) for integers n >= 0, d > 0: to the nearest integer,
\* a tie going to the even neighbour
PyRound(n, d) ==
    LET q == n \div d
        r == n % d
    IN  IF 2 * r < d THEN q
        ELSE IF 2 * r > d THEN q + 1
        ELSE IF q % 2 = 0 THEN q ELSE q + 1

(***************************************************************************)
(* Devices of the hub and the catalog of sensors built for each of them.   *)
(***************************************************************************)
\* vacuum_bot.device_info of the managed bots: did and optional nick
DeviceInfo ==
    [d1 |-> [did |-> "d1", nick |-> PyStr("Robo")],
     d2 |-> [did |-> "d2", nick |-> None],
     d3 |-> [did |-> "d3", nick |-> PyStr("Robo")]]

Devices == DOMAIN DeviceInfo

\* deebotozmo LifeSpan members: the component identifiers
LifeSpan == [BRUSH |-> "brush", SIDE_BRUSH |-> "sideBrush", FILTER |-> "heap"]

Components == {LifeSpan.BRUSH, LifeSpan.SIDE_BRUSH, LifeSpan.FILTER}

StatsType == [CLEANING |-> "stats", TOTAL |-> "total_stats"]

\* the event streams of vacuum_bot.events the sensors subscribe to
Streams ==
    {"status", "clean_logs", "water_info", "lifespan", "stats", "total_stats", "error"}

\* DeebotLastCleanImageSensor(vacbot)
DeebotLastCleanImageSensor ==
    [cls |-> "LastCleanImage", device_id |-> "last_clean_image", stream |-> "clean_logs",
     id |-> "", attribute |-> "", unit |-> None]

\* DeebotWaterLevelSensor(vacbot)
DeebotWaterLevelSensor ==
    [cls |-> "WaterLevel", device_id |-> "water_level", stream |-> "water_info",
     id |-> "", attribute |-> "", unit |-> None]

\* DeebotLastErrorSensor(vacbot)
DeebotLastErrorSensor ==
    [cls |-> "LastError", device_id |-> LAST_ERROR, stream |-> "error",
     id |-> "", attribute |-> "", unit |-> None]

\* DeebotComponentSensor(vacbot, component)
DeebotComponentSensor(component) ==
    [cls |-> "Component", device_id |-> component, stream |-> "lifespan",
     id |-> component, attribute |-> "", unit |-> PyStr("%")]

\* DeebotStatsSensor(vacbot, stats_type, attribute, icon, unit_of_measurement)
DeebotStatsSensor(stats_type, attribute, unit_of_measurement) ==
    [cls |-> "Stats",
     device_id |-> (IF stats_type = StatsType.TOTAL THEN "stats" \o "_total" ELSE "stats")
                       \o "_" \o attribute,
     stream |-> stats_type, id |-> "", attribute |-> attribute,
     unit |-> unit_of_measurement]

\* async_setup_entry: the entities appended to new_devices for one bot, in order
Catalog ==
    << DeebotLastCleanImageSensor,
       DeebotWaterLevelSensor,
       DeebotLastErrorSensor,
       DeebotComponentSensor(LifeSpan.BRUSH),
       DeebotComponentSensor(LifeSpan.SIDE_BRUSH),
       DeebotComponentSensor(LifeSpan.FILTER),
       DeebotStatsSensor(StatsType.CLEANING, "area", PyStr("m²")),
       DeebotStatsSensor(StatsType.CLEANING, "time", PyStr("min")),
       DeebotStatsSensor(StatsType.CLEANING, "type", None),
       DeebotStatsSensor(StatsType.CLEANING, "cid", None),
       DeebotStatsSensor(StatsType.CLEANING, "start", None),
       DeebotStatsSensor(StatsType.TOTAL, "area", PyStr("m²")),
       DeebotStatsSensor(StatsType.TOTAL, "time", PyStr("h")),
       DeebotStatsSensor(StatsType.TOTAL, "cleanings", None) >>

\* new_devices: one entity per bot and catalog entry, named <<bot, position>>
Sensors == Devices \X (1..Len(Catalog))

Desc(self) == Catalog[self[2]]

Bot(self) == self[1]

\* DeebotBaseSensor.__init__: _attr_name
attr_name(self) ==
    LET info == DeviceInfo[Bot(self)]
        name == IF info.nick # None THEN info.nick.str ELSE info.did
    IN  name \o "_" \o Desc(self).device_id

\* variant: the unique id built like the name, from the nickname when there is one
attr_unique_id_by_name(self) == attr_name(self)

\* DeebotBaseSensor.__init__: _attr_unique_id
attr_unique_id(self) == DeviceInfo[Bot(self)].did \o "_" \o Desc(self).device_id

(***************************************************************************)
(* Events the streams deliver (bounded sets of payloads).                  *)
(***************************************************************************)
\* most callbacks scheduled on the event loop and not yet run
MaxTasks == 2

ImageUrls == {"img1", "img2"}

\* StatusEvent.available
StatusEvents == {[available |-> b] : b \in BOOLEAN}

\* the lists of clean-log entries without repetition, most recent entry first
LogLists ==
    UNION {{l \in [1..n -> {[image_url |-> PyStr(u)] : u \in ImageUrls}] :
               \A i, j \in 1..n : l[i] = l[j] => i = j} :
           n \in 0..Cardinality(ImageUrls)}

\* CleanLogEvent.logs: a list of entries, each with an image_url
CleanLogEvents == {[logs |-> l] : l \in LogLists}

\* deebotozmo WaterLevel members
WaterLevels == 1..4

\* WaterInfoEvent.amount: a water level, or None when unset
WaterInfoEvents == {[amount |-> a] : a \in {None} \cup {PyInt(n) : n \in WaterLevels}}

Percents == {0, 55}

\* LifeSpanEvent: a mapping from component identifier to the percentage left;
\* an event carries no entry, one entry, or an entry for every component
LifeSpanEvents ==
    {[c \in D |-> PyInt(p)] : D \in {{}} \cup {{c} : c \in Components}, p \in Percents}
    \cup {[c \in Components |-> PyInt(IF c = LifeSpan.SIDE_BRUSH THEN 0 ELSE 100)]}

\* time values (seconds) of stats events: whole minutes and hours, and halves
Times == {30, 100, 120, 5400, 6000, 7200}

\* StatsEvent: area, time, type, cid, start; all unset, or all set, or one of
\* a library version that has no cid and no start
StatsEvents ==
    {[area |-> None, time |-> None, type |-> None, cid |-> None, start |-> None],
     [area |-> PyInt(2), time |-> PyInt(120), type |-> PyStr("spot")]}
    \cup {[area |-> PyInt(IF t < 100 THEN 0 ELSE 7), time |-> PyInt(t),
           type |-> PyStr(IF t < 100 THEN "" ELSE "auto"),
           cid |-> PyStr(IF t < 100 THEN "121" ELSE "122"),
           start |-> PyInt(1600 + t)] : t \in Times}

\* TotalStatsEvent: area, time, cleanings; all unset, or all set, or one
\* without cleanings
TotalStatsEvents ==
    {[area |-> None, time |-> None, cleanings |-> None],
     [area |-> PyInt(2), time |-> PyInt(7200)]}
    \cup {[area |-> PyInt(IF t < 100 THEN 0 ELSE 7), time |-> PyInt(t),
           cleanings |-> PyInt(t \div 1000)] : t \in Times}

\* ErrorEvent: code and description
ErrorEvents ==
    {[code |-> PyInt(c), description |-> PyStr(d)] : c \in {0, 5}, d \in {"NoError", "stuck"}}

EventsOf(stream) ==
    CASE stream = "status" -> StatusEvents
      [] stream = "clean_logs" -> CleanLogEvents
      [] stream = "water_info" -> WaterInfoEvents
      [] stream = "lifespan" -> LifeSpanEvents
      [] stream = "stats" -> StatsEvents
      [] stream = "total_stats" -> TotalStatsEvents
      [] stream = "error" -> ErrorEvents

(***************************************************************************)
(* State.                                                                  *)
(***************************************************************************)
VARIABLES
    vacuum_bots,             \* hub.vacuum_bots: the managed bots, in order
    setup_done,              \* whether async_setup_entry has run
    added_entities,          \* the batches handed to async_add_entities, in order
    enabled,                 \* entities enabled in the entity registry
    lifecycle,               \* per entity: "unbuilt", "constructed", "added", "removed"
    native_value,            \* per entity: _attr_native_value
    extra_state_attributes,  \* per entity: _attr_extra_state_attributes
    ha_state,                \* per entity: the state its callbacks last wrote to the host
    subscribers,             \* the listeners of all streams, in subscription order
    on_remove,               \* per entity: the listeners async_on_remove holds
    tasks,                   \* callbacks scheduled on the event loop, in order
    delivered,               \* entities a callback of which has run
    last                     \* the callback run by the last step, if any

vars ==
    << vacuum_bots, setup_done, added_entities, enabled, lifecycle, native_value, extra_state_attributes, ha_state,
       subscribers, on_remove, tasks, delivered, last >>

\* the listeners of one stream of one bot, in subscription order
Subscribers(bot, stream) ==
    SelectSeq(subscribers, LAMBDA l : l.bot = bot /\ l.stream = stream)

\* the entity as a callback sees it, nothing written to the host yet
Entity(self) ==
    [native_value |-> native_value[self],
     extra_state_attributes |-> extra_state_attributes[self],
     written |-> FALSE]

\* self.async_write_ha_state()
async_write_ha_state(entity) == [entity EXCEPT !.written = TRUE]

(***************************************************************************)
(* The callbacks.  Each gives the entity after the callback has run.       *)
(***************************************************************************)
\* variant: the test on event.available inverted
DeebotBaseSensor_on_event_inverted(self, event) ==
    IF event.available
    THEN async_write_ha_state([Entity(self) EXCEPT !.native_value = STATE_UNKNOWN])
    ELSE Entity(self)

\* variant: the state is written to the host for every status event
DeebotBaseSensor_on_event_notify(self, event) ==
    IF ~event.available
    THEN async_write_ha_state([Entity(self) EXCEPT !.native_value = STATE_UNKNOWN])
    ELSE async_write_ha_state(Entity(self))

\* DeebotBaseSensor.async_added_to_hass.on_event(event: StatusEvent)
DeebotBaseSensor_on_event(self, event) ==
    IF ~event.available
    THEN async_write_ha_state([Entity(self) EXCEPT !.native_value = STATE_UNKNOWN])
    ELSE Entity(self)

\* variant: the image of the last entry of the list instead of the first
DeebotLastCleanImageSensor_on_event_oldest(self, event) ==
    IF Len(event.logs) > 0
    THEN async_write_ha_state(
             [Entity(self) EXCEPT !.native_value = event.logs[Len(event.logs)].image_url])
    ELSE async_write_ha_state([Entity(self) EXCEPT !.native_value = STATE_UNKNOWN])

\* DeebotLastCleanImageSensor.async_added_to_hass.on_event(event: CleanLogEvent)
DeebotLastCleanImageSensor_on_event(self, event) ==
    IF Len(event.logs) > 0
    THEN async_write_ha_state(
             [Entity(self) EXCEPT !.native_value = event.logs[1].image_url])
    ELSE async_write_ha_state([Entity(self) EXCEPT !.native_value = STATE_UNKNOWN])

\* variant: an unset amount resets the value
DeebotWaterLevelSensor_on_event_reset(self, event) ==
    IF Truthy(event.amount)
    THEN async_write_ha_state([Entity(self) EXCEPT !.native_value = event.amount])
    ELSE async_write_ha_state([Entity(self) EXCEPT !.native_value = STATE_UNKNOWN])

\* DeebotWaterLevelSensor.async_added_to_hass.on_event(event: WaterInfoEvent)
DeebotWaterLevelSensor_on_event(self, event) ==
    IF Truthy(event.amount)
    THEN async_write_ha_state([Entity(self) EXCEPT !.native_value = event.amount])
    ELSE Entity(self)

\* LifeSpanEvent.get(key, None)
EventGet(event, key) == IF key \in DOMAIN event THEN event[key] ELSE None

\* variant: an event without a value for the component resets the value
DeebotComponentSensor_on_event_reset(self, event) ==
    LET value == EventGet(event, Desc(self).id)
    IN  IF Truthy(value)
        THEN async_write_ha_state([Entity(self) EXCEPT !.native_value = value])
        ELSE async_write_ha_state([Entity(self) EXCEPT !.native_value = STATE_UNKNOWN])

\* DeebotComponentSensor.async_added_to_hass.on_event(event: LifeSpanEvent)
DeebotComponentSensor_on_event(self, event) ==
    LET value == EventGet(event, Desc(self).id)
    IN  IF Truthy(value)
        THEN async_write_ha_state([Entity(self) EXCEPT !.native_value = value])
        ELSE Entity(self)

\* variant: the value is set and the state is not written to the host
DeebotStatsSensor_on_event_silent(self, event) ==
    IF Desc(self).attribute \in DOMAIN event
    THEN LET value == event[Desc(self).attribute]
         IN  IF value = None
             THEN Entity(self)
             ELSE IF Desc(self).attribute = "time"
             THEN [Entity(self) EXCEPT
                      !.native_value =
                          PyInt(PyRound(value.int,
                                        IF Desc(self).unit = PyStr("h") THEN 3600 ELSE 60))]
             ELSE [Entity(self) EXCEPT !.native_value = value]
    ELSE Entity(self)

\* variant: the value is tested for truth, not against None
DeebotStatsSensor_on_event_truthy(self, event) ==
    IF Desc(self).attribute \in DOMAIN event
    THEN LET value == event[Desc(self).attribute]
         IN  IF ~Truthy(value)
             THEN Entity(self)
             ELSE IF Desc(self).attribute = "time"
             THEN async_write_ha_state(
                      [Entity(self) EXCEPT
                          !.native_value =
                              PyInt(PyRound(value.int,
                                            IF Desc(self).unit = PyStr("h")
                                            THEN 3600 ELSE 60))])
             ELSE async_write_ha_state([Entity(self) EXCEPT !.native_value = value])
    ELSE Entity(self)

\* DeebotStatsSensor.async_added_to_hass.on_event(event: StatsEvent | TotalStatsEvent)
DeebotStatsSensor_on_event(self, event) ==
    IF Desc(self).attribute \in DOMAIN event
    THEN LET value == event[Desc(self).attribute]
         IN  IF value = None
             THEN Entity(self)
             ELSE IF Desc(self).attribute = "time"
             THEN IF Desc(self).unit = PyStr("h")
                  THEN async_write_ha_state(
                           [Entity(self) EXCEPT
                               !.native_value = PyInt(PyRound(value.int, 3600))])
                  ELSE async_write_ha_state(
                           [Entity(self) EXCEPT
                               !.native_value = PyInt(PyRound(value.int, 60))])
             ELSE async_write_ha_state([Entity(self) EXCEPT !.native_value = value])
    ELSE Entity(self)

\* variant: the state is written to the host before the description is set
DeebotLastErrorSensor_on_event_split(self, event) ==
    async_write_ha_state([Entity(self) EXCEPT !.native_value = event.code])

\* DeebotLastErrorSensor.async_added_to_hass.on_event(event: ErrorEvent)
DeebotLastErrorSensor_on_event(self, event) ==
    async_write_ha_state(
        [Entity(self) EXCEPT
            !.native_value = event.code,
            !.extra_state_attributes = (CONF_DESCRIPTION :> event.description)])

\* the callback a listener of `self` on `stream` holds
Callback(self, stream, event) ==
    IF stream = "status" THEN DeebotBaseSensor_on_event(self, event)
    ELSE CASE Desc(self).cls = "LastCleanImage" ->
                  DeebotLastCleanImageSensor_on_event(self, event)
           [] Desc(self).cls = "WaterLevel" -> DeebotWaterLevelSensor_on_event(self, event)
           [] Desc(self).cls = "Component" -> DeebotComponentSensor_on_event(self, event)
           [] Desc(self).cls = "Stats" -> DeebotStatsSensor_on_event(self, event)
           [] Desc(self).cls = "LastError" -> DeebotLastErrorSensor_on_event(self, event)

(***************************************************************************)
(* Operations.                                                             *)
(***************************************************************************)
\* the state after async_setup_entry: every entity constructed, none added yet.
\* variant: __init__ sets the value to "unknown"
InitialValue_unknown == STATE_UNKNOWN

\* __init__ assigns no value: _attr_native_value and _attr_extra_state_attributes
\* are the unset (None) class attributes of the entity base class.
InitialValue == None

\* Entities are disabled in the registry by default
\* (_attr_entity_registry_enabled_default); the host adds the ones the user
\* enabled.  The cells of the other entities stay as constructed for ever and
\* are left out of the state.
InitEntities ==
    /\ lifecycle = [s \in enabled |-> "constructed"]
    /\ native_value = [s \in enabled |-> InitialValue]
    /\ extra_state_attributes = [s \in enabled |-> None]
    /\ ha_state = [s \in enabled |-> None]
    /\ subscribers = << >>
    /\ on_remove = [s \in enabled |-> << >>]
    /\ tasks = << >>
    /\ delivered = {}
    /\ last = None

\* async_setup_entry: new_devices, the catalog built for every bot in turn
NewDevices(bots) ==
    [i \in 1..(Len(bots) * Len(Catalog)) |->
        << bots[((i - 1) \div Len(Catalog)) + 1], ((i - 1) % Len(Catalog)) + 1 >>]

\* the entities of a list
Range(seq) == {seq[i] : i \in 1..Len(seq)}

\* variant: async_add_entities called inside the loop, once for every bot
async_setup_entry_per_bot ==
    /\ ~setup_done
    /\ setup_done' = TRUE
    /\ added_entities' =
           added_entities \o
               [i \in 1..Len(vacuum_bots) |-> NewDevices(<< vacuum_bots[i] >>)]
    /\ lifecycle' = [s \in enabled |-> "constructed"]
    /\ UNCHANGED << vacuum_bots, enabled, native_value, extra_state_attributes, ha_state,
                    subscribers, on_remove, tasks, delivered, last >>

\* async_setup_entry: constructs the entities of every bot and hands them to
\* async_add_entities in one call, which is skipped when the list is empty
async_setup_entry ==
    /\ ~setup_done
    /\ setup_done' = TRUE
    /\ added_entities' =
           IF NewDevices(vacuum_bots) # << >>
           THEN Append(added_entities, NewDevices(vacuum_bots))
           ELSE added_entities
    /\ lifecycle' = [s \in enabled |-> "constructed"]
    /\ UNCHANGED << vacuum_bots, enabled, native_value, extra_state_attributes, ha_state,
                    subscribers, on_remove, tasks, delivered, last >>

\* the state after async_setup_entry for a hub of two bots; one entity
\* enabled, any of the catalog of either bot
Init ==
    /\ vacuum_bots = << "d1", "d2" >>
    /\ setup_done = TRUE
    /\ added_entities = << NewDevices(vacuum_bots) >>
    /\ enabled \in {{s} : s \in Range(NewDevices(vacuum_bots))}
    /\ InitEntities

\* the hubs: every list of bots without repetition, the empty one included
Hubs ==
    UNION {{h \in [1..n -> Devices] : \A i, j \in 1..n : h[i] = h[j] => i = j} :
           n \in 0..Cardinality(Devices)}

\* the state before async_setup_entry, for any hub; no entity enabled, or the
\* last-error entity of one bot
InitSetup ==
    /\ vacuum_bots \in Hubs
    /\ setup_done = FALSE
    /\ added_entities = << >>
    /\ enabled \in {{}} \cup
           {{s} : s \in {t \in Range(NewDevices(vacuum_bots)) :
                            Desc(t).cls = "LastError"}}
    /\ lifecycle = [s \in enabled |-> "unbuilt"]
    /\ native_value = [s \in enabled |-> InitialValue]
    /\ extra_state_attributes = [s \in enabled |-> None]
    /\ ha_state = [s \in enabled |-> None]
    /\ subscribers = << >>
    /\ on_remove = [s \in enabled |-> << >>]
    /\ tasks = << >>
    /\ delivered = {}
    /\ last = None

\* the listeners async_added_to_hass subscribes, in order: the base class
\* subscribes to the status stream, then the subclass to its metric stream
\* variant: every statistics entity subscribes to events.stats
Listeners_stats(self) ==
    << [bot |-> Bot(self), stream |-> "status", sensor |-> self],
       [bot |-> Bot(self),
        stream |-> IF Desc(self).cls = "Stats" THEN StatsType.CLEANING
                   ELSE Desc(self).stream,
        sensor |-> self] >>

Listeners(self) ==
    << [bot |-> Bot(self), stream |-> "status", sensor |-> self],
       [bot |-> Bot(self), stream |-> Desc(self).stream, sensor |-> self] >>

\* variant: only the unsubscribe of the status listener is handed to
\* async_on_remove
async_added_to_hass_leak(self) ==
    /\ lifecycle[self] = "constructed"
    /\ lifecycle' = [lifecycle EXCEPT ![self] = "added"]
    /\ subscribers' = subscribers \o Listeners(self)
    /\ on_remove' = [on_remove EXCEPT ![self] = << Listeners(self)[1] >>]
    /\ last' = None
    /\ UNCHANGED << vacuum_bots, setup_done, added_entities, enabled, native_value,
                    extra_state_attributes, ha_state, tasks, delivered >>

\* async_added_to_hass of every sensor class: both subscribe calls, and the
\* unsubscribe of each listener handed to async_on_remove
async_added_to_hass(self) ==
    /\ lifecycle[self] = "constructed"
    /\ lifecycle' = [lifecycle EXCEPT ![self] = "added"]
    /\ subscribers' = subscribers \o Listeners(self)
    /\ on_remove' = [on_remove EXCEPT ![self] = Listeners(self)]
    /\ last' = None
    /\ UNCHANGED << vacuum_bots, setup_done, added_entities, enabled, native_value,
                    extra_state_attributes, ha_state, tasks, delivered >>

\* teardown: the host runs the callbacks registered with async_on_remove, each
\* the unsubscribe of one listener
Remove(self) ==
    /\ lifecycle[self] = "added"
    /\ lifecycle' = [lifecycle EXCEPT ![self] = "removed"]
    /\ subscribers' =
           SelectSeq(subscribers,
                     LAMBDA l : \A i \in 1..Len(on_remove[self]) : on_remove[self][i] # l)
    /\ on_remove' = [on_remove EXCEPT ![self] = << >>]
    /\ last' = None
    /\ UNCHANGED << vacuum_bots, setup_done, added_entities, enabled, native_value,
                    extra_state_attributes, ha_state, tasks, delivered >>

\* a stream of a bot emits an event: one callback is scheduled for every
\* listener subscribed at that moment, in subscription order (an emission on a
\* stream without listeners schedules nothing and changes nothing)
Emit(bot, stream, event) ==
    LET subs == Subscribers(bot, stream)
    IN  /\ subs # << >>
        /\ Len(tasks) + Len(subs) <= MaxTasks
        /\ tasks' = tasks \o
                        [i \in 1..Len(subs) |->
                            [sensor |-> subs[i].sensor, bot |-> bot, stream |-> stream,
                             event |-> event]]
        /\ last' = None
        /\ UNCHANGED << vacuum_bots, setup_done, added_entities, enabled, lifecycle,
                        native_value, extra_state_attributes, ha_state, subscribers,
                        on_remove, delivered >>

\* the event loop runs the oldest scheduled callback to its end
RunTask ==
    /\ tasks # << >>
    /\ LET task == Head(tasks)
           self == task.sensor
           after == Callback(self, task.stream, task.event)
       IN  /\ native_value' = [native_value EXCEPT ![self] = after.native_value]
           /\ extra_state_attributes' =
                  [extra_state_attributes EXCEPT ![self] = after.extra_state_attributes]
           /\ ha_state' =
                  IF after.written
                  THEN [ha_state EXCEPT
                           ![self] = [state |-> after.native_value,
                                      attributes |-> after.extra_state_attributes]]
                  ELSE ha_state
           /\ last' = [task |-> task,
                       before |-> [native_value |-> native_value[self],
                                   extra_state_attributes |-> extra_state_attributes[self]],
                       written |-> after.written]
    /\ tasks' = Tail(tasks)
    /\ delivered' = delivered \cup {Head(tasks).sensor}
    /\ UNCHANGED << vacuum_bots, setup_done, added_entities, enabled, lifecycle,
                    subscribers, on_remove >>

Next ==
    \/ \E self \in enabled : async_added_to_hass(self)
    \/ \E self \in enabled : Remove(self)
    \/ \E bot \in Devices, stream \in Streams : \E event \in EventsOf(stream) :
           Emit(bot, stream, event)
    \/ RunTask

Spec == Init /\ [][Next]_vars

\* the pairs of entities enabled together: the area entities of the two
\* statistics of one bot, and the water level entities of two bots
Pairs ==
    {{<< "d1", 7 >>, << "d1", 12 >>}, {<< "d1", 2 >>, << "d2", 2 >>}}

\* the state after async_setup_entry for a hub of two bots, two entities enabled
InitPair ==
    /\ vacuum_bots = << "d1", "d2" >>
    /\ setup_done = TRUE
    /\ added_entities = << NewDevices(vacuum_bots) >>
    /\ enabled \in Pairs
    /\ InitEntities

\* the life of two entities side by side
SpecPair == InitPair /\ [][Next]_vars

NextSetup ==
    \/ async_setup_entry
    \/ Next

\* setup of any hub, followed by the life of the entities
SpecSetup == InitSetup /\ [][NextSetup]_vars

(***************************************************************************)
(* Properties.  `last` names the callback the last step ran: its entity,   *)
(* stream and event, the entity's cells before it, and whether it wrote    *)
(* the state to the host.                                                  *)
(***************************************************************************)
Ran == last # None

Self == last.task.sensor

Event == last.task.event

RanOn(stream) == Ran /\ last.task.stream = stream

RanMetric == Ran /\ last.task.stream # "status"

\* a value other than unset and "unknown"
Concrete(v) == v # None /\ v # STATE_UNKNOWN

\* the state and attributes the host holds for an entity that wrote them
Rendered(self) ==
    [state |-> native_value[self], attributes |-> extra_state_attributes[self]]

\* the value the designated field of a metric event carries for an entity, in
\* the unit the entity displays; None when the event carries none
Carried(self, event) ==
    CASE Desc(self).cls = "LastCleanImage" ->
             IF event.logs = << >> THEN None ELSE event.logs[1].image_url
      [] Desc(self).cls = "WaterLevel" -> event.amount
      [] Desc(self).cls = "Component" ->
             IF Desc(self).id \in DOMAIN event THEN event[Desc(self).id] ELSE None
      [] Desc(self).cls = "Stats" ->
             IF Desc(self).attribute \notin DOMAIN event THEN None
             ELSE IF event[Desc(self).attribute] = None THEN None
             ELSE IF Desc(self).attribute # "time" THEN event[Desc(self).attribute]
             ELSE PyInt(PyRound(event.time.int,
                                IF Desc(self).unit = PyStr("h") THEN 3600 ELSE 60))
      [] Desc(self).cls = "LastError" -> event.code

\* C1: a status event with available = false, delivered to an entity of any
\* kind holding any value, sets the value to "unknown" and writes the state to
\* the host.
C1_UnavailableResets ==
    (RanOn("status") /\ ~Event.available) =>
        /\ native_value[Self] = STATE_UNKNOWN
        /\ last.written
        /\ ha_state[Self] = Rendered(Self)

\* C1 witness: an added entity held a concrete value when the status event
\* with available = false reached it.
C1_Witness ==
    /\ RanOn("status") /\ ~Event.available
    /\ lifecycle[Self] = "added"
    /\ Concrete(last.before.native_value)
    /\ native_value[Self] = STATE_UNKNOWN

\* C2 (as claimed): once an entity is removed, no callback changes its value
\* or attributes or writes its state to the host, whenever its event was
\* emitted.
C2_NoEffectAfterTeardown ==
    (Ran /\ lifecycle[Self] = "removed") =>
        /\ ~last.written
        /\ native_value[Self] = last.before.native_value
        /\ extra_state_attributes[Self] = last.before.extra_state_attributes

\* C3 (as claimed, step by step): a metric event that carries a value for the
\* entity's field leaves the entity holding that value; one that carries none
\* leaves it holding the value it held or "unknown".
C3_MostRecentValue ==
    RanMetric =>
        IF Carried(Self, Event) # None
        THEN native_value[Self] = Carried(Self, Event)
        ELSE native_value[Self] \in {last.before.native_value, STATE_UNKNOWN}

\* C4 (as claimed): no event of a metric stream replaces a concrete value by
\* "unknown".
C4_OnlyStatusResets ==
    (RanMetric /\ Concrete(last.before.native_value)) =>
        native_value[Self] # STATE_UNKNOWN

\* C4 (amended): an event of a metric stream replaces a concrete value by
\* "unknown" only when it is a clean-log event with an empty log list
\* delivered to the last-clean-image entity.
C4_OnlyStatusOrEmptyLogResets ==
    (RanMetric /\ Concrete(last.before.native_value)
               /\ native_value[Self] = STATE_UNKNOWN) =>
        (Desc(Self).cls = "LastCleanImage" /\ Event.logs = << >>)

\* C4 witness: a metric event that carries no value reached an entity of
\* another kind holding a concrete value, and the value stayed.
C4_Witness ==
    /\ RanMetric
    /\ Desc(Self).cls # "LastCleanImage"
    /\ Concrete(last.before.native_value)
    /\ Carried(Self, Event) = None
    /\ native_value[Self] = last.before.native_value

C6_ErrorAtomic ==
    RanOn("error") =>
        /\ native_value[Self] = Event.code
        /\ extra_state_attributes[Self] = (CONF_DESCRIPTION :> Event.description)
        /\ last.written
        /\ ha_state[Self] =
               [state |-> Event.code,
                attributes |-> (CONF_DESCRIPTION :> Event.description)]

\* C6 witness: an error event reached an entity that held another code and
\* another description.
C6_Witness ==
    /\ RanOn("error")
    /\ Concrete(last.before.native_value)
    /\ last.before.native_value # Event.code
    /\ last.before.extra_state_attributes # None
    /\ last.before.extra_state_attributes # (CONF_DESCRIPTION :> Event.description)
    /\ native_value[Self] = Event.code

\* C7: a water-info event with an amount sets the value to it and writes the
\* state; one with the amount unset leaves the value and writes nothing.
C7_WaterAmount ==
    RanOn("water_info") =>
        IF Event.amount # None
        THEN /\ native_value[Self] = Event.amount
             /\ last.written
             /\ ha_state[Self] = Rendered(Self)
        ELSE /\ native_value[Self] = last.before.native_value
             /\ ~last.written

\* C7 witness: a water-info event with the amount unset reached an entity
\* holding a concrete amount.
C7_Witness ==
    /\ RanOn("water_info")
    /\ Event.amount = None
    /\ Concrete(last.before.native_value)
    /\ native_value[Self] = last.before.native_value

\* distance between two integers
Dist(a, b) == IF a < b THEN b - a ELSE a - b

\* v is an integer nearest to t / d
Nearest(v, t, d) == 2 * Dist(v * d, t) <= d

\* C8: a stats entity on attribute "time" displays the time divided by 3600
\* (unit "h") or by 60 (unit "min") and rounded to a nearest integer; 7200 s
\* are 2 h and 120 s are 2 min; the cleaning-stats time entity has unit "min"
\* and the total-stats time entity unit "h".
C8_TimeUnits ==
    /\ \A s \in Sensors :
           (Desc(s).cls = "Stats" /\ Desc(s).attribute = "time") =>
               /\ Desc(s).stream = StatsType.CLEANING => Desc(s).unit = PyStr("min")
               /\ Desc(s).stream = StatsType.TOTAL => Desc(s).unit = PyStr("h")
    /\ (RanMetric /\ Desc(Self).cls = "Stats" /\ Desc(Self).attribute = "time"
                  /\ Event.time # None) =>
           /\ last.written
           /\ Desc(Self).unit = PyStr("h") =>
                  /\ Nearest(native_value[Self].int, Event.time.int, 3600)
                  /\ Event.time.int = 7200 => native_value[Self] = PyInt(2)
           /\ Desc(Self).unit = PyStr("min") =>
                  /\ Nearest(native_value[Self].int, Event.time.int, 60)
                  /\ Event.time.int = 120 => native_value[Self] = PyInt(2)

\* C8 witness: the hour entity received a time that is no whole number of
\* hours.
C8_Witness ==
    /\ RanOn(StatsType.TOTAL)
    /\ Desc(Self).attribute = "time"
    /\ Event.time # None
    /\ Event.time.int % 3600 # 0
    /\ native_value[Self] = PyInt(2)

\* C9: a clean-log event with an empty list sets the value to "unknown", one
\* with entries sets it to the image URL of the first entry; both write the
\* state to the host.
C9_FirstLogImage ==
    RanOn("clean_logs") =>
        /\ last.written
        /\ ha_state[Self] = Rendered(Self)
        /\ IF Event.logs = << >>
           THEN native_value[Self] = STATE_UNKNOWN
           ELSE native_value[Self] = Event.logs[1].image_url

\* C9 witness: a clean-log event with two entries of different URLs was
\* delivered.
C9_Witness ==
    /\ RanOn("clean_logs")
    /\ Len(Event.logs) = 2
    /\ Event.logs[1].image_url # Event.logs[2].image_url
    /\ native_value[Self] = Event.logs[1].image_url

\* C10: a callback that changed the value or the attributes wrote the state
\* to the host before it ended, so the host holds the cells of every entity
\* that ever changed them.
C10_WriteAfterMutation ==
    /\ (Ran /\ ( \/ native_value[Self] # last.before.native_value
                 \/ extra_state_attributes[Self] # last.before.extra_state_attributes))
           => last.written
    /\ \A s \in enabled :
           IF ha_state[s] = None
           THEN native_value[s] = InitialValue /\ extra_state_attributes[s] = None
           ELSE ha_state[s] = Rendered(s)

\* C10 witness: a callback that changed a value has ended.
C10_Witness ==
    /\ Ran
    /\ native_value[Self] # last.before.native_value
    /\ Concrete(last.before.native_value)
    /\ ha_state[Self] = Rendered(Self)

\* the entities handed to the host so far, over all registration calls
Registered == UNION {Range(added_entities[i]) : i \in 1..Len(added_entities)}

\* the fourteen kinds of the catalog, by class, stream and designated field
CatalogKinds ==
    << << "LastCleanImage", "clean_logs", "" >>,
       << "WaterLevel", "water_info", "" >>,
       << "LastError", "error", "" >>,
       << "Component", "lifespan", "brush" >>,
       << "Component", "lifespan", "sideBrush" >>,
       << "Component", "lifespan", "heap" >>,
       << "Stats", "stats", "area" >>,
       << "Stats", "stats", "time" >>,
       << "Stats", "stats", "type" >>,
       << "Stats", "stats", "cid" >>,
       << "Stats", "stats", "start" >>,
       << "Stats", "total_stats", "area" >>,
       << "Stats", "total_stats", "time" >>,
       << "Stats", "total_stats", "cleanings" >> >>

\* the kind of an entity
Kind(self) ==
    << Desc(self).cls, Desc(self).stream,
       IF Desc(self).cls = "Component" THEN Desc(self).id ELSE Desc(self).attribute >>

\* a batch holds, for every bot of the hub in order, the fourteen kinds in order
FullBatch(batch) ==
    /\ Len(batch) = 14 * Len(vacuum_bots)
    /\ \A b \in 1..Len(vacuum_bots) : \A k \in 1..14 :
           /\ Bot(batch[14 * (b - 1) + k]) = vacuum_bots[b]
           /\ Kind(batch[14 * (b - 1) + k]) = CatalogKinds[k]

\* C11 (as claimed): once setup has run, the host has received exactly one
\* registration call, holding the fourteen entities of every bot of the hub,
\* and nothing is registered before or afterwards.
C11_ExactlyOneBatch ==
    IF setup_done
    THEN Len(added_entities) = 1 /\ FullBatch(added_entities[1])
    ELSE added_entities = << >>

\* C11 (amended): once setup has run for a hub with at least one bot, the host
\* has received exactly one registration call, holding the fourteen entities
\* of every bot of the hub in order; for a hub without bots the host receives
\* no call at all; nothing is registered before setup, and no delivered event
\* changes what is registered.
C11_OneBatchUnlessEmpty ==
    IF setup_done /\ vacuum_bots # << >>
    THEN Len(added_entities) = 1 /\ FullBatch(added_entities[1])
    ELSE added_entities = << >>

\* C11 witness: setup has run for a hub of several bots, and a callback of a
\* registered entity has run since.
C11_Witness ==
    /\ setup_done
    /\ Len(vacuum_bots) > 1
    /\ Len(added_entities) = 1
    /\ Ran /\ Self \in Registered

\* the metric keys of the catalog, in order
MetricKeys ==
    << "last_clean_image", "water_level", "last_error", "brush", "sideBrush", "heap",
       "stats_area", "stats_time", "stats_type", "stats_cid", "stats_start",
       "stats_total_area", "stats_total_time", "stats_total_cleanings" >>

\* C12: the unique id of every registered entity is the device id, an
\* underscore and the metric key, and any two different entities registered by
\* one setup have different unique ids (there are as many unique ids as
\* registered entities), whatever the nicknames of their bots.
C12_UniqueIds ==
    /\ \A s \in Registered :
           attr_unique_id(s) = DeviceInfo[Bot(s)].did \o "_" \o MetricKeys[s[2]]
    /\ Cardinality({attr_unique_id(s) : s \in Registered}) = Cardinality(Registered)

\* C12 witness: two registered entities of bots that share a nickname have
\* the same name and different unique ids.
C12_Witness ==
    \E s, t \in Registered :
        /\ Bot(s) # Bot(t)
        /\ DeviceInfo[Bot(s)].nick = DeviceInfo[Bot(t)].nick
        /\ attr_name(s) = attr_name(t)
        /\ attr_unique_id(s) # attr_unique_id(t)

\* C13 (as claimed): a lifespan event that carries a percentage for the
\* entity's own component sets the value to that percentage and writes the
\* state to the host, whatever the percentage; one without an entry for the
\* component leaves the value and writes nothing; entries of other components
\* make no difference.
C13_LifespanPercentage ==
    RanOn("lifespan") =>
        IF Desc(Self).id \in DOMAIN Event
        THEN /\ native_value[Self] = Event[Desc(Self).id]
             /\ last.written
        ELSE /\ native_value[Self] = last.before.native_value
             /\ ~last.written

\* the last callback left the entity as it was and wrote nothing
Untouched ==
    /\ native_value[Self] = last.before.native_value
    /\ extra_state_attributes[Self] = last.before.extra_state_attributes
    /\ ~last.written

\* C14: a stats or total-stats event that lacks the entity's attribute, or
\* carries None for it, leaves the value and attributes and writes nothing;
\* one that carries any other value for an attribute other than time, zero
\* and the empty string included, sets exactly that value and writes the state.
C14_StatsNoneOrAbsent ==
    (RanOn("stats") \/ RanOn("total_stats")) =>
        IF Desc(Self).attribute \notin DOMAIN Event
        THEN Untouched
        ELSE IF Event[Desc(Self).attribute] = None
        THEN Untouched
        ELSE Desc(Self).attribute # "time" =>
                 /\ native_value[Self] = Event[Desc(Self).attribute]
                 /\ last.written

\* C14 witness: an entity holding a concrete value received an event that
\* lacks its attribute.
C14_Witness ==
    /\ (RanOn("stats") \/ RanOn("total_stats"))
    /\ Desc(Self).attribute \notin DOMAIN Event
    /\ Concrete(native_value[Self])
    /\ ~last.written

\* C15 (as claimed): in every reachable state the value and the description
\* attribute of a last-error entity are either the initial pair (value unset
\* or "unknown", no description) or the code and the description of one
\* single error event.
C15_PairFromOneErrorEvent ==
    \A s \in enabled :
        Desc(s).cls = "LastError" =>
            \/ /\ native_value[s] \in {None, STATE_UNKNOWN}
               /\ extra_state_attributes[s] = None
            \/ \E e \in ErrorEvents :
                   /\ native_value[s] = e.code
                   /\ extra_state_attributes[s] = (CONF_DESCRIPTION :> e.description)

\* the listeners of an entity that are subscribed
ListenersOf(self) == SelectSeq(subscribers, LAMBDA l : l.sensor = self)

\* C17: an added entity of any kind has exactly two listeners, one on the
\* status stream and one on its own metric stream of its own bot; an entity
\* not yet added, and an entity removed, has no listener on any stream.
C17_TwoSubscriptions ==
    \A s \in enabled :
        IF lifecycle[s] = "added"
        THEN /\ Len(ListenersOf(s)) = 2
             /\ ListenersOf(s)[1].bot = Bot(s) /\ ListenersOf(s)[1].stream = "status"
             /\ ListenersOf(s)[2].bot = Bot(s)
             /\ ListenersOf(s)[2].stream = Desc(s).stream
        ELSE ListenersOf(s) = << >>

\* C17 witness: an entity was added and then removed, and none of its
\* listeners is left.
C17_Witness ==
    \E s \in enabled :
        /\ lifecycle[s] = "removed"
        /\ ListenersOf(s) = << >>
        /\ on_remove[s] = << >>

\* C18: a status event with available = true leaves the value and the
\* attributes of the entity as they were and writes nothing to the host; an
\* entity reset to "unknown" stays "unknown".
C18_AvailableChangesNothing ==
    (RanOn("status") /\ Event.available) => Untouched

\* C18 witness: a status event with available = true reached an entity that
\* an earlier reset had left at "unknown", and the entity is still "unknown".
C18_Witness ==
    /\ RanOn("status") /\ Event.available
    /\ last.before.native_value = STATE_UNKNOWN
    /\ ha_state[Self] # None
    /\ ha_state[Self].state = STATE_UNKNOWN
    /\ native_value[Self] = STATE_UNKNOWN

\* C19 (as claimed): an entity at "unknown" that receives an event of its
\* metric stream carrying a value for its field takes that value, whether or
\* not a status event with available = true came in between.
C19_UnknownNotSticky ==
    (RanMetric /\ last.before.native_value = STATE_UNKNOWN
         /\ Carried(Self, Event) # None) =>
        native_value[Self] = Carried(Self, Event)

\* the cells of an entity: its value, its attributes and its state at the host
Cells(self) == << native_value[self], extra_state_attributes[self], ha_state[self] >>

CellsAfter(self) == << native_value'[self], extra_state_attributes'[self], ha_state'[self] >>

\* C16: a step changes the value, the attributes or the host state of an
\* entity only by running a callback of that entity for an event that its own
\* bot emitted on the status stream or on the entity's own metric stream; the
\* entities of other bots and of other streams keep theirs, so a stats event
\* never changes a total-stats entity and a total-stats event never changes a
\* stats entity.
C16_OnlySubscribersChange ==
    [][\A s \in enabled :
          CellsAfter(s) # Cells(s) =>
              /\ tasks # << >>
              /\ Head(tasks).sensor = s
              /\ Head(tasks).bot = Bot(s)
              /\ Head(tasks).stream \in {"status", Desc(s).stream}]_vars

\* C16 witness: an event was delivered to one entity and set its value while
\* the other entity, added too, of the same attribute on the other statistics
\* stream or of the other bot, still has no value.
C16_Witness ==
    /\ RanMetric /\ last.written
    /\ Concrete(native_value[Self])
    /\ \E t \in enabled :
           /\ t # Self
           /\ lifecycle[t] = "added"
           /\ \/ Bot(t) # Bot(Self)
              \/ Desc(t).attribute = Desc(Self).attribute /\ Desc(t).stream # Desc(Self).stream
           /\ native_value[t] = None
           /\ ha_state[t] = None

====
